---- MODULE Spec2Model ----
(***************************************************************************)
(* Client-side runtime of the trading-bot dashboard.                       *)
(*                                                                         *)
(*   DashboardSwitcher  (src/unnamed/part_000)  preference controller and  *)
(*                                              refresh scheduler          *)
(*   TradingDashboard   (src/static/js/main.js) live channel, 5 s poll,    *)
(*                                              activity merger            *)
(*                                                                         *)
(* Both classes run on one page, on one event loop: every handler runs to  *)
(* completion, so every handler is one action.  A handler is written as a  *)
(* function from the page state (a record, Cur) to the page state, which   *)
(* lets a handler call another the way the code does; an action commits    *)
(* the record the handler returns.                                         *)
(***************************************************************************)
EXTENDS Integers, Sequences, FiniteSets, TLC

VARIABLES
    \* localStorage, and whether the browser lets the page use it
    store, storage,
    \* DashboardSwitcher instance fields
    currentTheme, currentView, refreshInterval, wired,
    \* window: interval timers, media-query listeners, system colour scheme
    timers, nextTimerId, mqListeners, prefersDark,
    \* document: theme, views, layout, switcher buttons, filter listeners
    dataTheme, cssTokens, activeViews, layoutClasses, activeSwitchers,
    filterListeners, refreshNotes,
    \* document: scalar cells and the trade table
    priceCell, balanceCell, statusCell, tradeRows, dom,
    \* network: fetches in flight, by requester; the live channel
    inFlight, wsState, wsErrored, reconnectTimers, pollArmed,
    \* notifications on screen, their expiry timers, the clock
    notifications, noteTimers, nextNoteId, now,
    \* whether the handler that ran last ended by an uncaught exception
    thrown,
    \* history: what was called last, for stating the properties
    lastOp, lastRate, lastExplicit, sinceLoad, inserted,
    \* history: whether the store was empty when the page was loaded
    loadedEmpty,
    \* the server: how often its price has changed, and the responses to
    \* /api/dashboard-data on their way to the page
    server

vars == <<store, currentTheme, currentView, refreshInterval, timers,
          nextTimerId, mqListeners, prefersDark, dataTheme, cssTokens,
          activeViews, layoutClasses, activeSwitchers, filterListeners,
          refreshNotes, priceCell, balanceCell, statusCell, tradeRows, dom,
          inFlight, wsState, reconnectTimers, lastOp, lastRate, lastExplicit,
          sinceLoad, inserted, storage, wired, pollArmed, notifications,
          noteTimers, nextNoteId, now, thrown, wsErrored, loadedEmpty,
          server>>

----------------------------------------------------------------------------
(* Bounds of the model *)

\* setInterval calls per page load
MaxTimerIds == 3
\* change listeners on the colour-scheme media query
MaxListeners == 3
\* input listeners on a trade-filter input
MaxFilterListeners == 2
\* fetches in flight at once
MaxInFlight == 2
\* 'Data refreshed' notes on screen at once
MaxNotes == 1
\* rows inserted by TradingDashboard.updateTradeHistory per page load
MaxInserts == 11
\* showNotification calls per page load
MaxNotifications == 3
\* seconds of the clock
MaxTime == 8
\* changes of the server's price
MaxPriceChanges == 2

----------------------------------------------------------------------------
(* Program constants *)

\* rows kept in the trade table by TradingDashboard.updateTradeHistory
WindowCapacity == 10

----------------------------------------------------------------------------
(* Values *)

Absent == "<null>"

KeyTheme == "dashboard-theme"
KeyView == "dashboard-view"
KeyLayout == "dashboard-layout"
KeyRefresh == "dashboard-refresh-rate"
\* the key TradingDashboard.toggleTheme writes
KeyToggleTheme == "theme"
Keys == {KeyTheme, KeyView, KeyLayout, KeyRefresh, KeyToggleTheme}

ConcreteThemes == {"light", "dark"}
ThemeArgs == ConcreteThemes \cup {"auto"}

\* the views initializeView knows, each with a .view-container
Views == {"dashboard", "trades", "analytics", "settings"}
\* a view name with no container and no case in initializeView
NoSuchView == "reports"
ViewArgs == Views \cup {NoSuchView}

Layouts == {"grid", "list", "compact"}
\* layout names the code does not know: stored values of another version
\* of the page, or [data-layout-switch] values of the markup
ForeignLayouts == {"wide", "dense"}
LayoutArgs == Layouts \cup ForeignLayouts
LayoutClasses == {"layout-grid", "layout-list", "layout-compact"}

\* seconds offered by the [data-refresh-switch] buttons
RefreshRates == {0, 5, 30}

\* elements the handlers look up with querySelector
AllElements == {".current-price", ".account-balance", ".bot-status",
                ".trade-history tbody", ".dashboard-container"}

TradeIds == {"t1", "t2"}

\* prices and balances in thousandths: 123456 is 123.456
Amounts == {123456, 123461, 99990}
Statuses == {"Running", "Stopped"}

\* Records are written with their fields in alphabetical order throughout:
\* TLC sorts a record's fields in place on first use, and a record already
\* in order is safe to share between its workers.
NoOp == [arg |-> <<>>, op |-> "load"]

----------------------------------------------------------------------------
(* Conversions *)

\* String(seconds), as localStorage.setItem stores it
ToStr(n) ==
    CASE n = 0 -> "0"
      [] n = 5 -> "5"
      [] n = 30 -> "30"
      [] OTHER -> "NaN"

\* parseInt(s) for the strings ToStr writes; -1 stands for NaN
ParseInt(s) ==
    CASE s = "0" -> 0
      [] s = "5" -> 5
      [] s = "30" -> 30
      [] OTHER -> -1

\* a JavaScript string as a condition: null and "" are false
Truthy(s) == s # Absent /\ s # ""

\* x.toFixed(2) of a value in thousandths, in hundredths (12346 is "123.46")
ToFixed2(x) == (x + 5) \div 10

\* the text `$${x.toFixed(2)}` of a cell, as the tuple of its hundredths
Dollars(x) == <<ToFixed2(x)>>

\* status.toLowerCase()
ToLowerCase(s) ==
    CASE s = "Running" -> "running"
      [] s = "Stopped" -> "stopped"
      [] OTHER -> s

Put(st, key, value) == [st EXCEPT ![key] = value]

\* A payload field of the wrong shape.  Amounts are the non-negative
\* integers, so NotANumber stands for a value without a toFixed method, a
\* string such as '12.5' (truthy, as a condition); NotAString stands for a
\* status that is a non-zero number, which has no toLowerCase method;
\* BadTrade is a trade object without a numeric price.
NotANumber == -1
NotAString == "<42>"
BadTrade == "t?"
HasToFixed(x) == x # NotANumber
HasToLowerCase(st) == st # NotAString

\* what the browser lets the page do with localStorage: everything, reads
\* only (setItem raises QuotaExceededError), or nothing (every access raises)
StorageModes == {"ok", "full", "blocked"}

----------------------------------------------------------------------------
(* The page state as one record, and its commit.  A handler starts with    *)
(* nothing thrown: Cur.thrown is FALSE, and the commit records in thrown   *)
(* whether the handler ended by an exception that nothing caught.          *)

Cur ==
    [store |-> store, currentTheme |-> currentTheme,
     currentView |-> currentView, refreshInterval |-> refreshInterval,
     timers |-> timers, nextTimerId |-> nextTimerId,
     mqListeners |-> mqListeners, prefersDark |-> prefersDark,
     dataTheme |-> dataTheme, cssTokens |-> cssTokens,
     activeViews |-> activeViews, layoutClasses |-> layoutClasses,
     activeSwitchers |-> activeSwitchers,
     filterListeners |-> filterListeners, refreshNotes |-> refreshNotes,
     priceCell |-> priceCell, balanceCell |-> balanceCell,
     statusCell |-> statusCell, tradeRows |-> tradeRows, dom |-> dom,
     inFlight |-> inFlight, wsState |-> wsState,
     reconnectTimers |-> reconnectTimers, lastOp |-> lastOp,
     lastRate |-> lastRate, lastExplicit |-> lastExplicit,
     sinceLoad |-> sinceLoad, inserted |-> inserted,
     storage |-> storage, wired |-> wired, pollArmed |-> pollArmed,
     notifications |-> notifications, noteTimers |-> noteTimers,
     nextNoteId |-> nextNoteId, now |-> now, thrown |-> FALSE,
     wsErrored |-> wsErrored, loadedEmpty |-> loadedEmpty,
     server |-> server]

Commit(s) ==
    /\ store' = s.store
    /\ currentTheme' = s.currentTheme
    /\ currentView' = s.currentView
    /\ refreshInterval' = s.refreshInterval
    /\ timers' = s.timers
    /\ nextTimerId' = s.nextTimerId
    /\ mqListeners' = s.mqListeners
    /\ prefersDark' = s.prefersDark
    /\ dataTheme' = s.dataTheme
    /\ cssTokens' = s.cssTokens
    /\ activeViews' = s.activeViews
    /\ layoutClasses' = s.layoutClasses
    /\ activeSwitchers' = s.activeSwitchers
    /\ filterListeners' = s.filterListeners
    /\ refreshNotes' = s.refreshNotes
    /\ priceCell' = s.priceCell
    /\ balanceCell' = s.balanceCell
    /\ statusCell' = s.statusCell
    /\ tradeRows' = s.tradeRows
    /\ dom' = s.dom
    /\ inFlight' = s.inFlight
    /\ wsState' = s.wsState
    /\ reconnectTimers' = s.reconnectTimers
    /\ lastOp' = s.lastOp
    /\ lastRate' = s.lastRate
    /\ lastExplicit' = s.lastExplicit
    /\ sinceLoad' = s.sinceLoad
    /\ inserted' = s.inserted
    /\ storage' = s.storage
    /\ wired' = s.wired
    /\ pollArmed' = s.pollArmed
    /\ notifications' = s.notifications
    /\ noteTimers' = s.noteTimers
    /\ nextNoteId' = s.nextNoteId
    /\ now' = s.now
    /\ thrown' = s.thrown
    /\ wsErrored' = s.wsErrored
    /\ loadedEmpty' = s.loadedEmpty
    /\ server' = s.server

\* the step counter of the history: 0 after a page load, then 1, then 2 for more
Called(s, op, arg) ==
    [s EXCEPT !.lastOp = [arg |-> arg, op |-> op],
              !.sinceLoad = IF @ < 2 THEN @ + 1 ELSE 2]

Requesters == {"loadDashboardData", "loadTradeHistory", "loadAnalyticsData",
               "loadSettings", "refreshData", "updateDashboardData"}

InFlightTotal(s) ==
    s.inFlight["loadDashboardData"] + s.inFlight["loadTradeHistory"]
    + s.inFlight["loadAnalyticsData"] + s.inFlight["loadSettings"]
    + s.inFlight["refreshData"] + s.inFlight["updateDashboardData"]

\* throw: an exception leaves the statement being run
Throw(s) == [s EXCEPT !.thrown = TRUE]

\* the statements after one that may throw: skipped when it threw
After(s, rest) == IF s.thrown THEN s ELSE rest

\* localStorage.setItem(key, value)
setItem(s, key, value) ==
    IF s.storage = "ok" THEN [s EXCEPT !.store = Put(@, key, value)]
    ELSE Throw(s)

\* fetch(url): the request leaves, the async function suspends at its await
fetch(s, who) == [s EXCEPT !.inFlight[who] = @ + 1]

\* the response (or the failure) arrives: the async function resumes
settle(s, who) == [s EXCEPT !.inFlight[who] = @ - 1]

----------------------------------------------------------------------------
(* DashboardSwitcher: theme *)

applyTheme(s, theme) ==
    [s EXCEPT !.dataTheme = theme,
              !.cssTokens = IF theme = "dark" THEN "dark" ELSE "light"]

\* switchTheme past its 'auto' branch (lines 153-166)
switchThemeConcrete(s, theme) ==
    LET s1 == [s EXCEPT !.currentTheme = theme]
        s2 == applyTheme(s1, theme)
        s3 == setItem(s2, KeyTheme, theme)
    IN  After(s3, [s3 EXCEPT !.activeSwitchers.theme = theme])

\* enableAutoTheme storing 'auto' before switchTheme stores the resolved theme
enableAutoTheme_StoresFirst(s) ==
    LET theme == IF s.prefersDark THEN "dark" ELSE "light"
        s1 == setItem(s, KeyTheme, "auto")
        s2 == After(s1, switchThemeConcrete(s1, theme))
    IN  After(s2, [s2 EXCEPT !.mqListeners = @ + 1])

enableAutoTheme(s) ==
    LET theme == IF s.prefersDark THEN "dark" ELSE "light"
        s1 == switchThemeConcrete(s, theme)
        s2 == After(s1, setItem(s1, KeyTheme, "auto"))
    IN  After(s2, [s2 EXCEPT !.mqListeners = @ + 1])

switchTheme(s, theme) ==
    IF theme = "auto" THEN enableAutoTheme(s) ELSE switchThemeConcrete(s, theme)

\* the 'change' listener enableAutoTheme registers (lines 199-202)
onSchemeChange(s) ==
    applyTheme(s, IF s.prefersDark THEN "dark" ELSE "light")

----------------------------------------------------------------------------
(* DashboardSwitcher: view *)

loadDashboardData(s) == fetch(s, "loadDashboardData")
loadTradeHistory(s) == fetch(s, "loadTradeHistory")
loadAnalyticsData(s) == fetch(s, "loadAnalyticsData")
loadSettings(s) == fetch(s, "loadSettings")

\* one more 'input' listener (a new closure each call) on the filter input
setupTradeFilters(s) == [s EXCEPT !.filterListeners = @ + 1]

\* setupDashboardCharts and setupAnalyticsCharts only take a canvas context
initializeView(s, view) ==
    CASE view = "dashboard" -> loadDashboardData(s)
      [] view = "trades" -> setupTradeFilters(loadTradeHistory(s))
      [] view = "analytics" -> loadAnalyticsData(s)
      [] view = "settings" -> loadSettings(s)
      [] OTHER -> s

switchView(s, view) ==
    LET found == view \in Views
        s1 == [s EXCEPT !.activeViews = IF found THEN {view} ELSE {},
                        !.activeSwitchers.view = IF found THEN view ELSE ""]
        s2 == setItem([s1 EXCEPT !.currentView = view], KeyView, view)
    IN  After(s2, initializeView(s2, view))

----------------------------------------------------------------------------
(* DashboardSwitcher: layout *)

LayoutClass(layout) ==
    CASE layout = "grid" -> "layout-grid"
      [] layout = "list" -> "layout-list"
      [] layout = "compact" -> "layout-compact"
      [] layout = "wide" -> "layout-wide"
      [] layout = "dense" -> "layout-dense"
      [] OTHER -> "layout-?"

applyLayout(s, layout) ==
    IF ".dashboard-container" \in s.dom
    THEN [s EXCEPT !.layoutClasses =
                       (@ \ LayoutClasses) \cup {LayoutClass(layout)}]
    ELSE s

switchLayout(s, layout) ==
    LET s1 == applyLayout(s, layout)
        s2 == setItem(s1, KeyLayout, layout)
    IN  After(s2, [s2 EXCEPT !.activeSwitchers.layout = layout])

----------------------------------------------------------------------------
(* DashboardSwitcher: refresh scheduler *)

clearInterval(s, id) ==
    [s EXCEPT !.timers = {t \in @ : t.id # id}]

setInterval(s, ms) ==
    [s EXCEPT !.timers = @ \cup {[id |-> s.nextTimerId, period |-> ms]},
              !.refreshInterval = s.nextTimerId,
              !.nextTimerId = @ + 1]

\* setRefreshRate with the clearInterval call left out
setRefreshRate_NoClear(s, seconds) ==
    LET s2 == IF seconds > 0 THEN setInterval(s, seconds * 1000) ELSE s
        s3 == setItem([s2 EXCEPT !.lastRate = <<seconds>>],
                      KeyRefresh, ToStr(seconds))
    IN  After(s3, [s3 EXCEPT !.activeSwitchers.refresh = ToStr(seconds)])

\* setRefreshRate handing setInterval the seconds as milliseconds
setRefreshRate_PeriodInSeconds(s, seconds) ==
    LET s1 == IF s.refreshInterval # 0
              THEN clearInterval(s, s.refreshInterval) ELSE s
        s2 == IF seconds > 0 THEN setInterval(s1, seconds) ELSE s1
        s3 == setItem([s2 EXCEPT !.lastRate = <<seconds>>],
                      KeyRefresh, ToStr(seconds))
    IN  After(s3, [s3 EXCEPT !.activeSwitchers.refresh = ToStr(seconds)])

\* setRefreshRate arming a timer for every seconds >= 0
setRefreshRate_ArmsOnZero(s, seconds) ==
    LET s1 == IF s.refreshInterval # 0
              THEN clearInterval(s, s.refreshInterval) ELSE s
        s2 == IF seconds >= 0 THEN setInterval(s1, seconds * 1000) ELSE s1
        s3 == setItem([s2 EXCEPT !.lastRate = <<seconds>>],
                      KeyRefresh, ToStr(seconds))
    IN  After(s3, [s3 EXCEPT !.activeSwitchers.refresh = ToStr(seconds)])

setRefreshRate(s, seconds) ==
    LET s1 == IF s.refreshInterval # 0
              THEN clearInterval(s, s.refreshInterval) ELSE s
        s2 == IF seconds > 0 THEN setInterval(s1, seconds * 1000) ELSE s1
        s3 == setItem([s2 EXCEPT !.lastRate = <<seconds>>],
                      KeyRefresh, ToStr(seconds))
    IN  After(s3, [s3 EXCEPT !.activeSwitchers.refresh = ToStr(seconds)])

\* refreshData up to its first await (line 288), run by the interval timer
refreshData(s) == fetch(s, "refreshData")

\* DashboardSwitcher.updateDashboardData: each field only when it is truthy
DS_updateDashboardData(s, data) ==
    LET s1 == IF data.current_price # 0 /\ ".current-price" \in s.dom
              THEN IF HasToFixed(data.current_price)
                   THEN [s EXCEPT !.priceCell = Dollars(data.current_price)]
                   ELSE Throw(s)
              ELSE s
        s2 == IF data.balance # 0 /\ ".account-balance" \in s.dom
              THEN IF HasToFixed(data.balance)
                   THEN [s1 EXCEPT !.balanceCell = Dollars(data.balance)]
                   ELSE Throw(s1)
              ELSE s1
        s3 == IF data.bot_status # "" /\ ".bot-status" \in s.dom
              THEN IF HasToLowerCase(data.bot_status)
                   THEN [s2 EXCEPT !.statusCell =
                                       [class |-> ToLowerCase(data.bot_status),
                                        text |-> data.bot_status]]
                   ELSE Throw([s2 EXCEPT !.statusCell.text = data.bot_status])
              ELSE s2
    IN  After(s1, After(s2, s3))

showRefreshNotification(s) == [s EXCEPT !.refreshNotes = @ + 1]

\* catch (error) { console.error(...) }: the exception ends here
Caught(s) == [s EXCEPT !.thrown = FALSE]

\* refreshData showing its notification before it merges the snapshot
refreshDataResume_NotifiesFirst(s, data) ==
    LET s1 == showRefreshNotification(settle(s, "refreshData"))
    IN  Caught(DS_updateDashboardData(s1, data))

\* refreshData after its awaits (lines 289-295), inside its try
refreshDataResume(s, data) ==
    LET s1 == DS_updateDashboardData(settle(s, "refreshData"), data)
    IN  Caught(After(s1, showRefreshNotification(s1)))

\* loadDashboardData after its awaits (lines 341-342), inside its try
loadDashboardDataResume(s, data) ==
    Caught(DS_updateDashboardData(settle(s, "loadDashboardData"), data))

\* DashboardSwitcher.updateTradeHistory: the table is replaced by the response
DS_updateTradeHistory(s, trades) ==
    IF ".trade-history tbody" \in s.dom
    THEN [s EXCEPT !.tradeRows = trades]
    ELSE s

\* loadTradeHistory after its awaits (lines 351-352)
loadTradeHistoryResume(s, trades) ==
    DS_updateTradeHistory(settle(s, "loadTradeHistory"), trades)

----------------------------------------------------------------------------
(* DashboardSwitcher: construction *)

\* localStorage.getItem raises when the store is blocked: the first read
\* (line 20) ends the method
loadSavedSettings(s) ==
    LET savedTheme == s.store[KeyTheme]
        s1 == IF Truthy(savedTheme)
              THEN applyTheme([s EXCEPT !.currentTheme = savedTheme], savedTheme)
              ELSE s
        savedView == s1.store[KeyView]
        s2 == IF Truthy(savedView)
              THEN switchView([s1 EXCEPT !.currentView = savedView], savedView)
              ELSE s1
        savedLayout == s2.store[KeyLayout]
        s3 == IF Truthy(savedLayout) THEN applyLayout(s2, savedLayout) ELSE s2
        savedRefreshRate == s3.store[KeyRefresh]
    IN  IF s.storage = "blocked" THEN Throw(s)
        ELSE After(s2, IF Truthy(savedRefreshRate)
                       THEN setRefreshRate(s3, ParseInt(savedRefreshRate))
                       ELSE s3)

\* what the page's markup shows before any script runs
MarkupActiveViews == {"dashboard"}
MarkupLayoutClasses == {"layout-grid"}

\* a page just loaded, before either constructor's init(): the switcher's
\* fields (lines 5-6), no socket, no timer, the store usable, the clock at
\* zero
Fresh(st, pd, d) ==
    [store |-> st, currentTheme |-> "light", currentView |-> "dashboard",
     refreshInterval |-> 0, timers |-> {}, nextTimerId |-> 1,
     mqListeners |-> 0, prefersDark |-> pd, dataTheme |-> "",
     cssTokens |-> "", activeViews |-> MarkupActiveViews,
     layoutClasses |-> MarkupLayoutClasses,
     activeSwitchers |-> [layout |-> "", refresh |-> "", theme |-> "",
                          view |-> ""],
     filterListeners |-> 0, refreshNotes |-> 0, priceCell |-> <<>>,
     balanceCell |-> <<>>, statusCell |-> [class |-> "", text |-> ""],
     tradeRows |-> <<>>, dom |-> d,
     inFlight |-> [r \in Requesters |-> 0], wsState |-> "none",
     reconnectTimers |-> 0, lastOp |-> NoOp, lastRate |-> <<>>,
     lastExplicit |-> "", sinceLoad |-> 0, inserted |-> <<>>,
     storage |-> "ok", wired |-> FALSE, pollArmed |-> FALSE,
     notifications |-> {}, noteTimers |-> {}, nextNoteId |-> 1, now |-> 0,
     thrown |-> FALSE, wsErrored |-> FALSE,
     loadedEmpty |-> \A k \in Keys : st[k] = Absent,
     server |-> [inTransit |-> {}, price |-> 0]]

\* init() writing the defaults to the store when nothing was saved
init_PersistsDefaults(s) ==
    LET s1 == loadSavedSettings(s)
        s2 == After(s1, IF Truthy(s1.store[KeyTheme]) THEN s1
                        ELSE setItem(s1, KeyTheme, s1.currentTheme))
    IN  After(s2, [s2 EXCEPT !.wired = TRUE])

\* init(): loadSavedSettings, then the setup* methods, which register the
\* click handlers the switch actions below stand for; an exception out of
\* loadSavedSettings leaves them unregistered
init(s) ==
    LET s1 == loadSavedSettings(s)
    IN  After(s1, [s1 EXCEPT !.wired = TRUE])

\* new DashboardSwitcher() on a page whose store is in mode m
DashboardSwitcher(m, st, pd, d) ==
    init([Fresh(st, pd, d) EXCEPT !.storage = m])

----------------------------------------------------------------------------
(* TradingDashboard: activity merger *)

\* updatePriceDisplay cutting the price to two decimals instead of rounding
updatePriceDisplay_Truncates(s, price) ==
    IF ".current-price" \in s.dom
    THEN [s EXCEPT !.priceCell = <<price \div 10>>]
    ELSE s

\* price.toFixed is evaluated before the assignment to textContent
updatePriceDisplay(s, price) ==
    IF ".current-price" \in s.dom
    THEN IF HasToFixed(price) THEN [s EXCEPT !.priceCell = Dollars(price)]
         ELSE Throw(s)
    ELSE s

updateBalanceDisplay(s, balance) ==
    IF ".account-balance" \in s.dom
    THEN IF HasToFixed(balance)
         THEN [s EXCEPT !.balanceCell = Dollars(balance)]
         ELSE Throw(s)
    ELSE s

\* textContent is assigned (line 401) before status.toLowerCase() (line 402)
updateBotStatus(s, status) ==
    IF ".bot-status" \in s.dom
    THEN IF HasToLowerCase(status)
         THEN [s EXCEPT !.statusCell =
                            [class |-> ToLowerCase(status), text |-> status]]
         ELSE Throw([s EXCEPT !.statusCell.text = status])
    ELSE s

\* A JavaScript value handed to updateTradeHistory: an array of trades, or
\* one trade object.  Only an array has a length.
ArrayOf(items) == [items |-> items, kind |-> "array"]
ObjectOf(trade) == [items |-> <<trade>>, kind |-> "object"]
\* the field is missing from the payload
Undefined == [items |-> <<>>, kind |-> "undefined"]

\* trades.length > 0: undefined > 0 is false
LengthPositive(trades) == trades.kind = "array" /\ Len(trades.items) > 0

\* updateTradeHistory removing rows[0], the row just inserted, when over 10
updateTradeHistory_EvictsNewest(s, trades) ==
    IF ".trade-history tbody" \in s.dom /\ LengthPositive(trades)
    THEN LET rows == <<trades.items[1]>> \o s.tradeRows
         IN  [s EXCEPT !.tradeRows =
                           IF Len(rows) > WindowCapacity
                           THEN SubSeq(rows, 2, Len(rows))
                           ELSE rows,
                       !.inserted = Append(@, trades.items[1])]
    ELSE s

\* TradingDashboard.updateTradeHistory.  trades.length is read only when
\* the table exists, and raises TypeError on undefined; createTradeRow
\* raises on trade.price.toFixed before the row is inserted.
updateTradeHistory(s, trades) ==
    IF ".trade-history tbody" \in s.dom
    THEN IF trades.kind = "undefined" THEN Throw(s)
         ELSE IF ~LengthPositive(trades) THEN s
         ELSE IF trades.items[1] = BadTrade THEN Throw(s)
         ELSE LET rows == <<trades.items[1]>> \o s.tradeRows
              IN  [s EXCEPT !.tradeRows =
                                IF Len(rows) > WindowCapacity
                                THEN SubSeq(rows, 1, Len(rows) - 1)
                                ELSE rows,
                            !.inserted = Append(@, trades.items[1])]
    ELSE s

\* handleWebSocketMessage with a default branch that throws
handleWebSocketMessage_DefaultThrows(s, data) ==
    CASE data.type = "price_update" -> updatePriceDisplay(s, data.price)
      [] data.type = "trade_update" -> updateTradeHistory(s, data.trade)
      [] data.type = "balance_update" -> updateBalanceDisplay(s, data.balance)
      [] data.type = "status_update" -> updateBotStatus(s, data.status)
      [] OTHER -> Throw(s)

\* a parsed message: [type, price, trade, balance, status], the fields the
\* type does not use left at their zero
handleWebSocketMessage(s, data) ==
    CASE data.type = "price_update" -> updatePriceDisplay(s, data.price)
      [] data.type = "trade_update" -> updateTradeHistory(s, data.trade)
      [] data.type = "balance_update" -> updateBalanceDisplay(s, data.balance)
      [] data.type = "status_update" -> updateBotStatus(s, data.status)
      [] OTHER -> s

----------------------------------------------------------------------------
(* TradingDashboard: live channel.  wsState is the state of the socket in  *)
(* this.ws: "none" before any socket was created, then the socket's        *)
(* readyState.  wsErrored: that socket has fired its error event.          *)

\* schedule the reconnect: setTimeout(() => this.setupWebSocket(), 5000)
scheduleReconnect(s) == [s EXCEPT !.reconnectTimers = @ + 1]

\* setupWebSocket: new WebSocket(wsUrl) returns a socket, or throws and the
\* catch (lines 321-323) logs that polling is used
setupWebSocket(s, created) ==
    IF created THEN [s EXCEPT !.wsState = "connecting", !.wsErrored = FALSE]
    ELSE s

\* startRealTimeUpdates: setupWebSocket, then the 5000 ms interval
startRealTimeUpdates(s, created) ==
    [setupWebSocket(s, created) EXCEPT !.pollArmed = TRUE]

\* onopen stopping the poll once the channel is up
onopen_StopsPolling(s) == [s EXCEPT !.wsState = "open", !.pollArmed = FALSE]

\* onopen logs
onopen(s) == [s EXCEPT !.wsState = "open"]

\* a frame of the channel: its text parses as JSON to data, or does not
Frame(data) == [data |-> data, parses |-> TRUE]

\* onmessage: JSON.parse(event.data), then handleWebSocketMessage; no try
onmessage(s, event) ==
    IF event.parses THEN handleWebSocketMessage(s, event.data) ELSE Throw(s)

\* onerror scheduling a reconnect of its own
onerror_Reconnects(s) == scheduleReconnect([s EXCEPT !.wsErrored = TRUE])

\* onerror logs
onerror(s) == [s EXCEPT !.wsErrored = TRUE]

\* onclose logs and schedules the reconnect
onclose(s) == scheduleReconnect([s EXCEPT !.wsState = "closed"])

\* new TradingDashboard(): of init(), startRealTimeUpdates changes the state
\* modelled; setupNotifications makes sure the notification container exists
TradingDashboard(s, created) == startRealTimeUpdates(s, created)

\* both DOMContentLoaded listeners run, each in its own dispatch: an
\* exception out of the first does not keep the second from running
Page(m, st, pd, d, created) ==
    TradingDashboard(DashboardSwitcher(m, st, pd, d), created)

\* TradingDashboard.updateDashboardData up to its first await (line 345)
updateDashboardData(s) == fetch(s, "updateDashboardData")

\* TradingDashboard.updateDashboardData after its awaits (lines 346-351),
\* inside its try
updateDashboardDataResume(s, data) ==
    LET s0 == settle(s, "updateDashboardData")
        s1 == updatePriceDisplay(s0, data.current_price)
        s2 == After(s1, updateBalanceDisplay(s1, data.balance))
        s3 == After(s2, updateTradeHistory(s2, ArrayOf(data.recent_trades)))
    IN  Caught(After(s3, updateBotStatus(s3, data.bot_status)))

----------------------------------------------------------------------------
(* TradingDashboard: notifications.  The clock counts seconds; a timeout   *)
(* armed at now for d seconds is due from now + d on.                      *)

\* TradingDashboard.toggleTheme: the other of light and dark than the body's
\* data-theme (light when there is none), set on the body and stored under
\* 'theme'
toggleTheme(s) ==
    LET current == IF s.dataTheme = "" THEN "light" ELSE s.dataTheme
        newTheme == IF current = "light" THEN "dark" ELSE "light"
    IN  setItem([s EXCEPT !.dataTheme = newTheme], KeyToggleTheme, newTheme)

\* showNotification arming its timeout with the default 5000 ms whatever
\* duration it is given
showNotification_DefaultDelay(s, duration) ==
    [s EXCEPT !.notifications =
                  @ \cup {[created |-> s.now, duration |-> duration,
                           id |-> s.nextNoteId]},
              !.noteTimers = @ \cup {[deadline |-> s.now + 5,
                                      id |-> s.nextNoteId]},
              !.nextNoteId = @ + 1]

\* showNotification: the container exists since setupNotifications; the
\* element is appended and its removal is scheduled
showNotification(s, duration) ==
    [s EXCEPT !.notifications =
                  @ \cup {[created |-> s.now, duration |-> duration,
                           id |-> s.nextNoteId]},
              !.noteTimers = @ \cup {[deadline |-> s.now + duration,
                                      id |-> s.nextNoteId]},
              !.nextNoteId = @ + 1]

\* a removal that empties the notification container
remove_ClearsContainer(s, id) == [s EXCEPT !.notifications = {}]

\* notification.remove(): no effect on an element already removed
remove(s, id) == [s EXCEPT !.notifications = {n \in @ : n.id # id}]

\* the click listener of the close button (lines 437-439)
closeClick(s, id) == remove(s, id)

\* the timeout callback (lines 431-433); the timeout is spent
autoRemove(s, id) ==
    remove([s EXCEPT !.noteTimers = {tm \in @ : tm.id # id}], id)

----------------------------------------------------------------------------
(* Actions: one per handler the event loop can dispatch.  The switch       *)
(* handlers exist once init() has registered them (wired).                 *)

\* a [data-theme-switch] click, or a direct call
SwitchTheme(theme) ==
    /\ wired
    /\ theme = "auto" => mqListeners < MaxListeners
    /\ Commit(Called([switchTheme(Cur, theme) EXCEPT !.lastExplicit = theme],
                     "switchTheme", <<theme>>))

\* a click on [data-theme-switch="auto"]: the generic click handler
\* (lines 131-135) and the dedicated one (lines 141-143) both run
ClickAutoSwitcher ==
    LET s1 == switchTheme(Cur, "auto")
        s2 == enableAutoTheme([s1 EXCEPT !.thrown = FALSE])
    IN  /\ wired
        /\ mqListeners + 2 <= MaxListeners
        /\ Commit(Called([s2 EXCEPT !.lastExplicit = "auto",
                                    !.thrown = s1.thrown \/ s2.thrown],
                         "clickAuto", <<"auto">>))

RECURSIVE Times(_, _, _)
\* f applied n times: every registered listener runs on one event
Times(n, s, theme) ==
    IF n = 0 THEN s ELSE Times(n - 1, applyTheme(s, theme), theme)

\* the system colour scheme changes: every registered listener runs
SchemeChange ==
    LET s1 == [Cur EXCEPT !.prefersDark = ~@]
        newTheme == IF s1.prefersDark THEN "dark" ELSE "light"
    IN  Commit(Called(Times(s1.mqListeners, s1, newTheme),
                      "schemeChange", <<newTheme>>))

SwitchView(view) ==
    /\ wired
    /\ view \in Views => InFlightTotal(Cur) < MaxInFlight
    /\ view = "trades" => filterListeners < MaxFilterListeners
    /\ Commit(Called(switchView(Cur, view), "switchView", <<view>>))

SwitchLayout(layout) ==
    /\ wired
    /\ Commit(Called(switchLayout(Cur, layout), "switchLayout", <<layout>>))

SetRefreshRate(seconds) ==
    /\ wired
    /\ seconds > 0 => nextTimerId <= MaxTimerIds
    /\ Commit(Called(setRefreshRate(Cur, seconds), "setRefreshRate",
                     <<seconds>>))

\* an armed interval timer fires
RefreshTick ==
    /\ InFlightTotal(Cur) < MaxInFlight
    /\ \E t \in timers :
           Commit(Called(refreshData(Cur), "refreshTick", <<t.id>>))

RefreshDone(data) ==
    /\ inFlight["refreshData"] > 0
    /\ refreshNotes < MaxNotes
    /\ Commit(Called(refreshDataResume(Cur, data), "refreshDone", <<>>))

\* the 2000 ms timeout of a 'Data refreshed' note
NoteExpire ==
    /\ refreshNotes > 0
    /\ Commit(Called([Cur EXCEPT !.refreshNotes = @ - 1], "noteExpire", <<>>))

LoadDashboardDone(data) ==
    /\ inFlight["loadDashboardData"] > 0
    /\ Commit(Called(loadDashboardDataResume(Cur, data), "loadDashboardDone",
                     <<>>))

LoadTradeHistoryDone(trades) ==
    /\ inFlight["loadTradeHistory"] > 0
    /\ Commit(Called(loadTradeHistoryResume(Cur, trades),
                     "loadTradeHistoryDone", <<>>))

\* updateAnalyticsData logs; updateSettingsForm fills form inputs
LoadOtherDone(who) ==
    /\ who \in {"loadAnalyticsData", "loadSettings"}
    /\ inFlight[who] > 0
    /\ Commit(Called(settle(Cur, who), "loadOtherDone", <<who>>))

\* the catch of a failed fetch also stopping the caller's timer
FetchFail_StopsTimer(who) ==
    /\ inFlight[who] > 0
    /\ Commit(Called([settle(Cur, who) EXCEPT !.timers = {},
                                              !.pollArmed = FALSE],
                     "fetchFail", <<who>>))

\* a fetch rejects, or its body does not parse: the catch logs it
FetchFail(who) ==
    /\ inFlight[who] > 0
    /\ Commit(Called(settle(Cur, who), "fetchFail", <<who>>))

\* the browser reloads the page: timers, listeners, requests and the
\* document go; localStorage and the system colour scheme stay
Reload(created) ==
    Commit([Page(storage, store, prefersDark, dom, created)
                EXCEPT !.server.price = server.price])

----------------------------------------------------------------------------
(* Actions of the live channel and the poll *)

WsOpen ==
    /\ wsState = "connecting"
    /\ Commit(Called(onopen(Cur), "wsOpen", <<>>))

\* onmessage: JSON.parse, then handleWebSocketMessage
WsMessage(data) ==
    /\ wsState = "open"
    /\ (data.type = "trade_update" /\ LengthPositive(data.trade))
           => Len(inserted) < MaxInserts
    /\ Commit(Called(onmessage(Cur, Frame(data)), data.type, <<data>>))

\* a frame whose text is not JSON
WsUnparseable ==
    /\ wsState = "open"
    /\ Commit(Called(onmessage(Cur, [data |-> <<>>, parses |-> FALSE]),
                     "unparseable", <<>>))

\* a socket fires error at most once, before its close
WsError ==
    /\ wsState \in {"connecting", "open"}
    /\ ~wsErrored
    /\ Commit(Called(onerror(Cur), "wsError", <<>>))

\* the socket closes: a remote close, or the close that follows an error
WsClose ==
    /\ wsState \in {"connecting", "open"}
    /\ Commit(Called(onclose(Cur), "wsClose", <<>>))

\* the 5000 ms timeout fires: setupWebSocket
Reconnect(created) ==
    /\ reconnectTimers > 0
    /\ Commit(Called(setupWebSocket([Cur EXCEPT !.reconnectTimers = @ - 1],
                                     created),
                     "reconnect", <<created>>))

\* handleFormSubmit reports its outcome (lines 155-164), or a direct call
ShowNotification(duration) ==
    /\ nextNoteId <= MaxNotifications
    /\ Commit(Called(showNotification(Cur, duration), "showNotification",
                     <<duration>>))

\* a call of window.dashboard.toggleTheme()
ToggleTheme ==
    Commit(Called(toggleTheme(Cur), "toggleTheme", <<>>))

\* a click on the close button of a notification on screen
Dismiss(id) ==
    /\ \E n \in notifications : n.id = id
    /\ Commit(Called(closeClick(Cur, id), "dismiss", <<id>>))

\* a due timeout fires
Expire(id) ==
    /\ \E tm \in noteTimers : tm.id = id /\ tm.deadline <= now
    /\ Commit(Called(autoRemove(Cur, id), "expire", <<id>>))

\* a second passes; the event loop is idle between handlers, so a due
\* timeout has fired before the clock moves on
Tick ==
    /\ now < MaxTime
    /\ \A tm \in noteTimers : tm.deadline > now
    /\ Commit([Cur EXCEPT !.now = @ + 1, !.thrown = thrown])

\* the 5000 ms interval of startRealTimeUpdates fires
PollTick ==
    /\ pollArmed
    /\ InFlightTotal(Cur) < MaxInFlight
    /\ Commit(Called(updateDashboardData(Cur), "pollTick", <<>>))

PollDone(data) ==
    /\ inFlight["updateDashboardData"] > 0
    /\ Len(data.recent_trades) > 0 => Len(inserted) < MaxInserts
    /\ Commit(Called(updateDashboardDataResume(Cur, data), "pollDone", <<>>))

----------------------------------------------------------------------------
(* Inputs *)

Snapshot(p, b, st, tr) ==
    [balance |-> b, bot_status |-> st, current_price |-> p,
     recent_trades |-> tr]

Message(ty, p, tr, b, st) ==
    [balance |-> b, price |-> p, status |-> st, trade |-> tr, type |-> ty]

PriceUpdate(x) == Message("price_update", x, ArrayOf(<<>>), 0, "")
TradeUpdate(tr) == Message("trade_update", 0, tr, 0, "")
BalanceUpdate(b) == Message("balance_update", 0, ArrayOf(<<>>), b, "")
StatusUpdate(st) == Message("status_update", 0, ArrayOf(<<>>), 0, st)
UnknownMessage == Message("heartbeat", 0, ArrayOf(<<>>), 0, "")

\* messages of no known type, without and with the fields of the known ones
UnknownMessages ==
    {UnknownMessage,
     Message("order_update", 99990, ArrayOf(<<"t2">>), 123461, "Stopped")}

\* messages of a known type whose field has the wrong shape
MalformedMessages ==
    {PriceUpdate(NotANumber), BalanceUpdate(NotANumber),
     StatusUpdate(NotAString), TradeUpdate(Undefined),
     TradeUpdate(ArrayOf(<<BadTrade>>))}

\* the durations of showNotification, in seconds: a short one and the
\* default (line 415)
Durations == {2, 5}

\* snapshots without trades: every scalar at its zero, and at a value
ScalarSnapshots ==
    {Snapshot(0, 0, "", <<>>), Snapshot(123456, 99990, "Running", <<>>)}

\* refresh snapshots whose merge throws: at the price, and at the status
\* after the price and the balance were merged
BadPriceSnapshot == Snapshot(NotANumber, 99990, "Running", <<>>)
BadStatusSnapshot == Snapshot(123461, 99990, NotAString, <<>>)

\* trade lists of at most two entries
TradeLists ==
    {<<>>} \cup {<<a>> : a \in TradeIds}
           \cup {<<a, b>> : a \in TradeIds, b \in TradeIds}

----------------------------------------------------------------------------
(* Fetches of /api/dashboard-data followed from the server's answer to its  *)
(* arrival.  The server answers a request with its price of that moment;    *)
(* the response then travels for any length of time.                        *)

\* the server's price after k changes, in thousandths
PriceAt(k) == 100000 + 1000 * k

\* the response to the fetch of who leaves the server
Served(s, who) ==
    [s EXCEPT !.server.inTransit =
                  @ \cup {[price |-> s.server.price, who |-> who]}]

\* the response r has reached the page
Delivered(s, r) == [s EXCEPT !.server.inTransit = @ \ {r}]

\* the body of the response r
Body(r) == Snapshot(PriceAt(r.price), 99990, "Running", <<>>)

\* the price changes at the server
ServerPriceChange ==
    /\ server.price < MaxPriceChanges
    /\ Commit([Cur EXCEPT !.server.price = @ + 1, !.thrown = thrown])

\* the poll interval fires and the server answers the request
PollServed ==
    /\ pollArmed
    /\ InFlightTotal(Cur) < MaxInFlight
    /\ [price |-> server.price, who |-> "updateDashboardData"]
           \notin server.inTransit
    /\ Commit(Called(Served(updateDashboardData(Cur), "updateDashboardData"),
                     "pollTick", <<>>))

\* a response to a poll arrives
PollArrived(r) ==
    /\ r \in server.inTransit
    /\ r.who = "updateDashboardData"
    /\ Commit(Called(Delivered(updateDashboardDataResume(Cur, Body(r)), r),
                     "pollDone", <<r.price>>))

\* a refresh timer fires and the server answers the request
RefreshServed ==
    /\ InFlightTotal(Cur) < MaxInFlight
    /\ [price |-> server.price, who |-> "refreshData"] \notin server.inTransit
    /\ \E t \in timers :
           Commit(Called(Served(refreshData(Cur), "refreshData"),
                         "refreshTick", <<t.id>>))

\* a response to a refresh arrives
RefreshArrived(r) ==
    /\ r \in server.inTransit
    /\ r.who = "refreshData"
    /\ refreshNotes < MaxNotes
    /\ Commit(Called(Delivered(refreshDataResume(Cur, Body(r)), r),
                     "refreshDone", <<r.price>>))

----------------------------------------------------------------------------
(* Inputs, continued *)

\* poll snapshots with every field in shape, each with one recent trade
PollSnapshots ==
    {Snapshot(123456, 99990, "Running", <<"t1">>),
     Snapshot(123461, 123456, "Stopped", <<"t1">>)}

\* poll snapshots with one field of the wrong shape: the price, the balance
PartialSnapshots ==
    {Snapshot(NotANumber, 123456, "Stopped", <<"t1">>),
     Snapshot(123461, NotANumber, "Stopped", <<"t1">>)}

\* n rows of one trade
Repeat(a, n) == [i \in 1..n |-> a]

\* /api/trade-history responses: empty, short, of the window's capacity and
\* longer than it
HistoryLengths == {0, 2, WindowCapacity, WindowCapacity + 1, WindowCapacity + 2}
Histories == {Repeat(a, n) : a \in TradeIds, n \in HistoryLengths}

\* the page as the switcher sees it: with and without the layout container
SwitcherDoms == {AllElements, AllElements \ {".dashboard-container"}}

\* the page as the merger sees it
WindowDoms == {AllElements, AllElements \ {".trade-history tbody"}}
LiveDoms == {AllElements, AllElements \ {".current-price"}}

Start(s) ==
    /\ store = s.store
    /\ currentTheme = s.currentTheme
    /\ currentView = s.currentView
    /\ refreshInterval = s.refreshInterval
    /\ timers = s.timers
    /\ nextTimerId = s.nextTimerId
    /\ mqListeners = s.mqListeners
    /\ prefersDark = s.prefersDark
    /\ dataTheme = s.dataTheme
    /\ cssTokens = s.cssTokens
    /\ activeViews = s.activeViews
    /\ layoutClasses = s.layoutClasses
    /\ activeSwitchers = s.activeSwitchers
    /\ filterListeners = s.filterListeners
    /\ refreshNotes = s.refreshNotes
    /\ priceCell = s.priceCell
    /\ balanceCell = s.balanceCell
    /\ statusCell = s.statusCell
    /\ tradeRows = s.tradeRows
    /\ dom = s.dom
    /\ inFlight = s.inFlight
    /\ wsState = s.wsState
    /\ reconnectTimers = s.reconnectTimers
    /\ lastOp = s.lastOp
    /\ lastRate = s.lastRate
    /\ lastExplicit = s.lastExplicit
    /\ sinceLoad = s.sinceLoad
    /\ inserted = s.inserted
    /\ storage = s.storage
    /\ wired = s.wired
    /\ pollArmed = s.pollArmed
    /\ notifications = s.notifications
    /\ noteTimers = s.noteTimers
    /\ nextNoteId = s.nextNoteId
    /\ now = s.now
    /\ thrown = s.thrown
    /\ wsErrored = s.wsErrored
    /\ loadedEmpty = s.loadedEmpty
    /\ server = s.server

EmptyStore == [k \in Keys |-> Absent]

----------------------------------------------------------------------------
(* Specifications.  Spec is the whole page.  The properties are checked in  *)
(* its components: each has Spec's initial states (with the elements it     *)
(* looks up present or missing) and the actions of one component, so each   *)
(* of its behaviours is a behaviour of Spec; the actions it leaves out do   *)
(* not write the variables its properties read.                             *)

\* the first load the model follows: the store one of stores, in one of
\* modes, the elements of one of doms, new WebSocket succeeding as one of
\* outcomes says
InitStored(stores, doms, modes, outcomes) ==
    \E st \in stores, pd \in BOOLEAN, d \in doms, m \in modes,
       created \in outcomes :
        Start(Page(m, st, pd, d, created))

\* the first load of the page, the store empty
InitPage(doms, modes, outcomes) ==
    InitStored({EmptyStore}, doms, modes, outcomes)

\* the store usable and the socket created
InitWith(doms) == InitPage(doms, {"ok"}, {TRUE})

\* what the server answers GET /api/dashboard-data with, where only the
\* arrival matters
OneSnapshot == Snapshot(123456, 99990, "Running", <<"t1">>)

ThemeNext ==
    \/ \E theme \in ThemeArgs : SwitchTheme(theme)
    \/ ClickAutoSwitcher
    \/ SchemeChange
    \/ Reload(TRUE)

\* every theme operation of the page: the switcher's and the toggle
ThemeOpsNext ==
    \/ ThemeNext
    \/ ToggleTheme

SchedulerNext ==
    \/ \E seconds \in RefreshRates : SetRefreshRate(seconds)
    \/ RefreshTick
    \/ RefreshDone(OneSnapshot)
    \/ FetchFail("refreshData")
    \/ NoteExpire
    \/ Reload(TRUE)

ViewNext ==
    \/ \E view \in ViewArgs : SwitchView(view)
    \/ LoadDashboardDone(OneSnapshot)
    \/ \E trades \in {<<>>, <<"t1">>} : LoadTradeHistoryDone(trades)
    \/ \E who \in {"loadAnalyticsData", "loadSettings"} : LoadOtherDone(who)
    \/ \E who \in Requesters \ {"refreshData", "updateDashboardData"} :
           FetchFail(who)
    \/ Reload(TRUE)

\* one preference set on a freshly loaded page, then the page reloaded
RoundTripNext ==
    \/ sinceLoad = 0 /\ \E theme \in ThemeArgs : SwitchTheme(theme)
    \/ sinceLoad = 0 /\ \E view \in ViewArgs : SwitchView(view)
    \/ sinceLoad = 0 /\ \E layout \in Layouts : SwitchLayout(layout)
    \/ sinceLoad = 0 /\ \E seconds \in RefreshRates : SetRefreshRate(seconds)
    \/ Reload(TRUE)

\* trade events and poll snapshots, the scalars fixed
WindowNext ==
    \/ WsOpen
    \/ \E a \in TradeIds : WsMessage(TradeUpdate(ObjectOf(a)))
    \/ \E a \in TradeIds : WsMessage(TradeUpdate(ArrayOf(<<a>>)))
    \/ PollTick
    \/ \E tr \in TradeLists : PollDone(Snapshot(123456, 99990, "Running", tr))
    \/ FetchFail("updateDashboardData")

\* every kind of message, snapshots without trades, and a refresh timer
LiveNext ==
    \/ SetRefreshRate(5)
    \/ RefreshTick
    \/ RefreshDone(OneSnapshot)
    \/ NoteExpire
    \/ WsOpen
    \/ \E x \in Amounts : WsMessage(PriceUpdate(x))
    \/ \E x \in Amounts : WsMessage(BalanceUpdate(x))
    \/ \E st \in Statuses : WsMessage(StatusUpdate(st))
    \/ WsMessage(TradeUpdate(ObjectOf("t1")))
    \/ WsMessage(UnknownMessage)
    \/ WsError
    \/ WsClose
    \/ Reconnect(TRUE)
    \/ PollTick
    \/ \E x \in Amounts : PollDone(Snapshot(x, 99990, "Running", <<>>))
    \/ \E who \in {"updateDashboardData", "refreshData"} : FetchFail(who)

\* the life of the channel: sockets that open, fail, close and are replaced,
\* frames well-formed and not, under the poll
ChannelNext ==
    \/ WsOpen
    \/ WsMessage(PriceUpdate(123456))
    \/ WsMessage(StatusUpdate("Running"))
    \/ \E data \in UnknownMessages : WsMessage(data)
    \/ \E data \in MalformedMessages : WsMessage(data)
    \/ WsUnparseable
    \/ WsError
    \/ WsClose
    \/ \E created \in BOOLEAN : Reconnect(created)
    \/ PollTick
    \/ PollDone(Snapshot(99990, 99990, "Stopped", <<>>))
    \/ FetchFail("updateDashboardData")

\* one switch of each kind and reloads, the store usable, full or blocked
StorageNext ==
    \/ SwitchTheme("dark")
    \/ \E view \in {"trades", NoSuchView} : SwitchView(view)
    \/ SwitchLayout("list")
    \/ SetRefreshRate(5)
    \/ FetchFail("loadTradeHistory")
    \/ Reload(TRUE)

\* the three sources of a scalar: channel events, poll snapshots and
\* refresh snapshots, with zero and empty values among them
ScalarsNext ==
    \/ WsOpen
    \/ \E x \in {0, 123461} : WsMessage(PriceUpdate(x))
    \/ \E x \in {0, 123461} : WsMessage(BalanceUpdate(x))
    \/ \E st \in {"", "Stopped"} : WsMessage(StatusUpdate(st))
    \/ PollTick
    \/ \E data \in ScalarSnapshots : PollDone(data)
    \/ SetRefreshRate(5)
    \/ RefreshTick
    \/ \E data \in ScalarSnapshots : RefreshDone(data)
    \/ NoteExpire

\* the two writers of the trade table: the trades view loading the history
\* and replacing the table, and the channel inserting single rows
TableNext ==
    \/ SwitchView("trades")
    \/ \E trades \in Histories : LoadTradeHistoryDone(trades)
    \/ FetchFail("loadTradeHistory")
    \/ WsOpen
    \/ WsMessage(TradeUpdate(ArrayOf(<<"t1">>)))

\* the 5-second poll, its responses in shape and not, and its failures
PollNext ==
    \/ PollTick
    \/ \E data \in PollSnapshots \cup PartialSnapshots : PollDone(data)
    \/ FetchFail("updateDashboardData")

\* the responses that can be on their way
Responses ==
    {[price |-> k, who |-> who] :
         k \in 0..MaxPriceChanges,
         who \in {"updateDashboardData", "refreshData"}}

\* the price changing at the server while polls, refreshes and pushes carry
\* it to the page
StaleNext ==
    \/ ServerPriceChange
    \/ WsOpen
    \/ WsMessage(PriceUpdate(PriceAt(server.price)))
    \/ PollServed
    \/ \E r \in Responses : PollArrived(r)
    \/ SetRefreshRate(5)
    \/ RefreshServed
    \/ \E r \in Responses : RefreshArrived(r)
    \/ NoteExpire

\* layout switches, known and foreign, between theme switches and reloads
LayoutNext ==
    \/ \E layout \in LayoutArgs : SwitchLayout(layout)
    \/ \E theme \in ConcreteThemes : SwitchTheme(theme)
    \/ Reload(TRUE)

\* refresh ticks whose fetch succeeds or fails and whose merge succeeds or
\* throws
RefreshNext ==
    \/ SetRefreshRate(5)
    \/ RefreshTick
    \/ RefreshDone(OneSnapshot)
    \/ RefreshDone(BadPriceSnapshot)
    \/ RefreshDone(BadStatusSnapshot)
    \/ FetchFail("refreshData")
    \/ NoteExpire

NotifyNext ==
    \/ \E duration \in Durations : ShowNotification(duration)
    \/ \E id \in 1..MaxNotifications : Dismiss(id)
    \/ \E id \in 1..MaxNotifications : Expire(id)
    \/ Tick

Init == InitPage({AllElements}, StorageModes, BOOLEAN)

Next ==
    \/ ThemeOpsNext
    \/ SchedulerNext
    \/ ViewNext
    \/ \E layout \in Layouts : SwitchLayout(layout)
    \/ WindowNext
    \/ LiveNext
    \/ ChannelNext
    \/ StorageNext
    \/ LayoutNext
    \/ TableNext
    \/ StaleNext
    \/ PollNext
    \/ RefreshNext
    \/ ScalarsNext
    \/ NotifyNext

Spec == Init /\ [][Next]_vars
SpecTheme == InitWith(SwitcherDoms) /\ [][ThemeNext]_vars
SpecThemeOps == InitWith(SwitcherDoms) /\ [][ThemeOpsNext]_vars
SpecScheduler == InitWith(SwitcherDoms) /\ [][SchedulerNext]_vars
SpecView == InitWith(SwitcherDoms) /\ [][ViewNext]_vars
SpecRoundTrip == InitWith(SwitcherDoms) /\ [][RoundTripNext]_vars
SpecWindow == InitWith(WindowDoms) /\ [][WindowNext]_vars
SpecLive == InitWith(LiveDoms) /\ [][LiveNext]_vars
SpecStorage ==
    InitPage(SwitcherDoms, StorageModes, {TRUE}) /\ [][StorageNext]_vars
SpecTable == InitWith(WindowDoms) /\ [][TableNext]_vars
SpecPoll == InitWith({AllElements}) /\ [][PollNext]_vars
SpecStale == InitWith({AllElements}) /\ [][StaleNext]_vars
SpecScalars == InitWith({AllElements}) /\ [][ScalarsNext]_vars
SpecLayout ==
    /\ InitStored({EmptyStore} \cup {Put(EmptyStore, KeyLayout, layout) :
                                         layout \in LayoutArgs},
                  SwitcherDoms, {"ok"}, {TRUE})
    /\ [][LayoutNext]_vars
SpecRefresh == InitWith(LiveDoms) /\ [][RefreshNext]_vars
SpecNotify == InitWith({AllElements}) /\ [][NotifyNext]_vars
SpecChannel ==
    InitPage({AllElements}, {"ok"}, BOOLEAN) /\ [][ChannelNext]_vars

----------------------------------------------------------------------------
(* Properties of the refresh scheduler (SpecScheduler) *)

\* the periods, ms, of the refresh timers that are armed
ArmedPeriods == {t.period : t \in timers}

\* C1, as stated: after the last setRefreshRate(seconds) call, whether a
\* click's or loadSavedSettings', exactly one refresh timer is active and
\* its period is that of the last call.
C1_ExactlyOneTimerAfterLastCall ==
    lastRate # <<>> =>
        /\ Cardinality(timers) = 1
        /\ ArmedPeriods = {lastRate[1] * 1000}

\* C1, amended: after the last setRefreshRate(seconds) call, exactly one
\* refresh timer is active, with period seconds * 1000 ms, when seconds > 0,
\* and none is active when seconds is 0.
C1_OneTimerIffPositive ==
    lastRate # <<>> =>
        IF lastRate[1] > 0
        THEN Cardinality(timers) = 1 /\ ArmedPeriods = {lastRate[1] * 1000}
        ELSE timers = {}

\* a second positive rate was set on this page, after a different one
C1_Witness ==
    /\ lastOp.op = "setRefreshRate"
    /\ lastRate = <<30>>
    /\ nextTimerId = 3
    /\ ArmedPeriods = {30000}

\* C2: at most one refresh interval timer is armed in every reachable state:
\* a rearm cancels the timer armed before.
C2_AtMostOneTimer == Cardinality(timers) <= 1

\* the timer ticks after a rearm
C2_Witness ==
    /\ lastOp.op = "refreshTick"
    /\ nextTimerId >= 3
    /\ Cardinality(timers) = 1

\* C3: after setRefreshRate(0) no refresh timer is armed, no timer can run
\* refreshData, and "0" is what is stored under 'dashboard-refresh-rate',
\* for as long as no later call sets a positive rate.
C3_ZeroDisarms ==
    lastRate = <<0>> =>
        /\ timers = {}
        /\ ~ENABLED RefreshTick
        /\ store[KeyRefresh] = "0"

\* a timer was armed on this page and setRefreshRate(0) cancelled it
C3_Witness ==
    /\ lastRate = <<0>>
    /\ nextTimerId > 1
    /\ refreshInterval # 0

----------------------------------------------------------------------------
(* Properties of the theme (SpecTheme) *)

\* C4: when the last explicit theme call was switchTheme('dark') or
\* switchTheme('light'), a change of the system colour scheme leaves the
\* applied theme as it is.
C4_ExplicitThemeSurvivesSchemeChange ==
    [][(lastExplicit \in ConcreteThemes /\ prefersDark' # prefersDark)
           => (dataTheme' = dataTheme /\ cssTokens' = cssTokens)]_vars

\* C5: from switchTheme('auto') on, 'auto' is what is stored under
\* 'dashboard-theme', across changes of the system colour scheme, until
\* switchTheme is called with a concrete theme.
C5_AutoStaysStored ==
    lastExplicit = "auto" => store[KeyTheme] = "auto"

\* the system colour scheme changed after switchTheme('auto') and the
\* listener re-applied the theme
C5_Witness ==
    /\ lastExplicit = "auto"
    /\ lastOp.op = "schemeChange"
    /\ dataTheme # currentTheme

----------------------------------------------------------------------------
(* Properties of the views (SpecView) *)

\* C8: switchView(v) called a second time in a row with the same v changes
\* nothing: no further fetch is started and no further filter listener added.
C8_SwitchViewIdempotent ==
    [][\A v \in ViewArgs :
           (lastOp = [arg |-> <<v>>, op |-> "switchView"] /\ SwitchView(v))
               => /\ inFlight' = inFlight
                  /\ filterListeners' = filterListeners
                  /\ activeViews' = activeViews
                  /\ currentView' = currentView
                  /\ store' = store]_vars

----------------------------------------------------------------------------
(* Properties of the round trip through the store (SpecRoundTrip) *)

\* what the page shows and runs for the four preferences
Applied ==
    [layout |-> layoutClasses, refresh |-> ArmedPeriods,
     subscribed |-> mqListeners > 0, theme |-> dataTheme,
     tokens |-> cssTokens, views |-> activeViews]

\* C9: a preference set by its switch operation on a fresh page and then
\* reloaded by loadSavedSettings on a fresh instance gives the applied state
\* that setting it gave: theme and subscription, view, layout, refresh timer.
C9_RoundTrip ==
    [][(sinceLoad = 1
        /\ lastOp.op \in {"switchTheme", "switchView", "switchLayout",
                          "setRefreshRate"}
        /\ lastOp' = NoOp)
           => Applied' = Applied]_vars

----------------------------------------------------------------------------
(* Properties of the Recent Activity Window (SpecWindow) *)

\* the first n rows of a table
FirstRows(rows, n) == SubSeq(rows, 1, IF Len(rows) < n THEN Len(rows) ELSE n)

\* the records inserted so far, newest first
NewestFirst == [i \in 1..Len(inserted) |-> inserted[Len(inserted) + 1 - i]]

\* C6: whatever TradingDashboard.updateTradeHistory inserts, the window never
\* holds more than 10 rows, and once more than 10 records were inserted it
\* holds the last 10 of them, newest first.
C6_WindowIsLastTen ==
    /\ Len(tradeRows) <= WindowCapacity
    /\ Len(inserted) > WindowCapacity
           => tradeRows = FirstRows(NewestFirst, WindowCapacity)

\* an 11th record was inserted and evicted a record unlike the oldest kept
C6_Witness ==
    /\ Len(inserted) > WindowCapacity
    /\ inserted[1] # tradeRows[WindowCapacity]
    /\ tradeRows[1] # tradeRows[2]

\* C7: a trade_update message carrying one trade record puts exactly one
\* new row, that trade's, at the head of the window.
C7_TradeEventPrepends ==
    [][\A a \in TradeIds :
           (/\ ".trade-history tbody" \in dom
            /\ WsMessage(TradeUpdate(ObjectOf(a))))
               => /\ tradeRows' = FirstRows(<<a>> \o tradeRows, WindowCapacity)
                  /\ inserted' = Append(inserted, a)]_vars

----------------------------------------------------------------------------
(* Properties of the scalar cells (SpecLive) *)

\* C10, as stated: at the end of the handler of {type:'price_update',
\* price: x} the price cell shows x, whatever fetches are in flight.
C10_PriceCellShowsPrice ==
    (lastOp.op = "price_update" /\ ".current-price" \in dom)
        => priceCell # <<>> /\ priceCell[1] * 10 = lastOp.arg[1].price

\* C10, amended: at the end of that handler the price cell, where the page
\* has one, shows '$' and x.toFixed(2), x rounded to two decimals, whatever
\* fetches are in flight.
C10_PriceCellShowsToFixed2 ==
    (lastOp.op = "price_update" /\ ".current-price" \in dom)
        => priceCell = Dollars(lastOp.arg[1].price)

\* a price arrives while a poll and a refresh are both in flight
C10_Witness ==
    /\ lastOp.op = "price_update"
    /\ lastOp.arg[1].price = 123456
    /\ priceCell = <<12346>>
    /\ inFlight["updateDashboardData"] > 0
    /\ inFlight["refreshData"] > 0

\* C17: a failed fetch of a refresh tick (the request rejects, or its body
\* does not parse) leaves the refresh timer as it was, the same timer with
\* the same period, and the timer's next tick fetches again.
C17_FailedFetchKeepsTimer ==
    [][FetchFail("refreshData")
           => /\ timers' = timers
              /\ refreshInterval' = refreshInterval
              /\ timers # {} => (ENABLED RefreshTick)']_vars

\* a refresh fetch has failed while a second one was in flight and the
\* timer is armed
C17_Witness ==
    /\ lastOp.op = "fetchFail"
    /\ lastOp.arg[1] = "refreshData"
    /\ inFlight["refreshData"] > 0
    /\ timers # {}

\* C18: with the persistent store unavailable, initialization and every
\* switch operation go through as if no preference were saved: init() runs
\* its setup steps and no operation is cut short by the failure.
C18_StoreFailureNeverAborts ==
    storage # "ok" => wired /\ ~thrown

\* C19: switchView(view) with a view that has no container is a no-op: the
\* container that was active stays active, and currentView and the stored
\* 'dashboard-view' keep their values.
C19_MissingViewIsNoOp ==
    [][SwitchView(NoSuchView)
           => UNCHANGED <<activeViews, currentView, store>>]_vars

----------------------------------------------------------------------------
(* Live channel *)

\* connection attempts alive: pending reconnect timers, and the socket of
\* this.ws while it is connecting or open
Attempts ==
    reconnectTimers + (IF wsState \in {"connecting", "open"} THEN 1 ELSE 0)

\* C11: at most one connection attempt exists at any time, counting pending
\* reconnect timers and a socket that is connecting or open; right after a
\* close exactly one reconnect timer is pending, whether or not the socket
\* fired error before it closed.
C11_AtMostOneAttempt ==
    /\ Attempts <= 1
    /\ lastOp.op = "wsClose" => reconnectTimers = 1

\* a socket that fired error has closed and its one reconnect is pending
C11_Witness ==
    lastOp.op = "wsClose" /\ wsErrored /\ reconnectTimers = 1

\* C12: whenever no socket is connecting or open (the channel was closed,
\* or the socket could not be created), a reconnect is pending, so that a
\* new attempt follows when its timer fires.
C12_ClosedHasReconnectPending ==
    wsState \in {"closed", "none"} => reconnectTimers > 0

\* a frame that is not JSON, or a message of MalformedMessages, is handled
MalformedArrives ==
    \/ WsUnparseable
    \/ \E data \in MalformedMessages : WsMessage(data)

\* C15: a malformed inbound message is dropped inside the message handler:
\* no exception leaves the handler and no cell or trade row changes; and a
\* close of the channel, also after such a message, schedules a reconnect.
C15_MalformedDropped ==
    [][/\ MalformedArrives
             => /\ ~thrown'
                /\ UNCHANGED <<priceCell, balanceCell, statusCell,
                               tradeRows>>
       /\ WsClose => reconnectTimers' = reconnectTimers + 1]_vars

\* C16: a parsed message whose type is none of price_update, trade_update,
\* balance_update and status_update leaves the price, balance and status
\* cells and the trade rows as they were, and raises no error.
C16_UnknownTypeIgnored ==
    [][(\E data \in UnknownMessages : WsMessage(data))
           => /\ UNCHANGED <<priceCell, balanceCell, statusCell, tradeRows>>
              /\ ~thrown']_vars

\* a message of unknown type that carries a price and a status has been
\* handled on a page whose cells show other values
C16_Witness ==
    /\ lastOp.op = "order_update"
    /\ priceCell = Dollars(123456)
    /\ statusCell.text = "Running"

\* C20: the 5-second poll timer of startRealTimeUpdates stays armed in every
\* state of the channel and after every failed poll, and its tick starts a
\* poll (whenever the model's cap on fetches in flight leaves room).
C20_PollKeepsTicking ==
    /\ pollArmed
    /\ InFlightTotal(Cur) < MaxInFlight => ENABLED PollTick

\* the poll ticks after a socket opened, failed and closed and the reconnect
\* could not create a new one
C20_Witness ==
    /\ lastOp.op = "pollTick"
    /\ wsState = "closed"
    /\ wsErrored
    /\ reconnectTimers = 0

----------------------------------------------------------------------------
(* Notifications *)

\* C13: a notification shown with duration d is off the screen once d has
\* passed since showNotification, and is off the screen right after its
\* close button is clicked.
C13_AbsentAfterDuration ==
    /\ \A n \in notifications : now <= n.created + n.duration
    /\ lastOp.op = "dismiss"
           => \A n \in notifications : n.id # lastOp.arg[1]

\* one notification went by its timeout, another was just dismissed before
\* its duration had passed
C13_Witness ==
    /\ lastOp.op = "dismiss"
    /\ \E tm \in noteTimers : tm.id = lastOp.arg[1] /\ now < tm.deadline
    /\ \E id \in 1..(nextNoteId - 1) :
           /\ \A n \in notifications : n.id # id
           /\ \A tm \in noteTimers : tm.id # id

\* C14: a dismissal cancels the auto-removal: every armed expiry timer
\* belongs to a notification still on screen, so no timeout removes a
\* notification a second time.
C14_DismissCancelsTimer ==
    \A tm \in noteTimers : \E n \in notifications : n.id = tm.id

----------------------------------------------------------------------------
(* Scalar cells *)

\* C21: an update that carries a price, a balance or a status writes it to
\* its cell (a price or balance as '$' and toFixed(2)), whichever of the
\* three sources it comes from, a channel event, a poll snapshot or a
\* refresh snapshot, and also when the value is 0 or the empty string.
C21_EveryUpdateOverwrites ==
    [][/\ \A data \in ScalarSnapshots :
              (PollDone(data) \/ RefreshDone(data))
                  => /\ priceCell' = Dollars(data.current_price)
                     /\ balanceCell' = Dollars(data.balance)
                     /\ statusCell'.text = data.bot_status
       /\ \A x \in {0, 123461} :
              /\ WsMessage(PriceUpdate(x)) => priceCell' = Dollars(x)
              /\ WsMessage(BalanceUpdate(x)) => balanceCell' = Dollars(x)
       /\ \A st \in {"", "Stopped"} :
              WsMessage(StatusUpdate(st)) => statusCell'.text = st]_vars

----------------------------------------------------------------------------
(* Layout and view *)

\* C22: whatever switchLayout and applyLayout calls were made, applyLayout
\* of a stored string among them, the dashboard container carries exactly
\* one layout class, that of the last call.
C22_ExactlyOneLayoutClass ==
    ".dashboard-container" \in dom
        => /\ Cardinality(layoutClasses) = 1
           /\ lastOp.op = "switchLayout"
                  => layoutClasses = {LayoutClass(lastOp.arg[1])}
           /\ (lastOp.op = "load" /\ Truthy(store[KeyLayout]))
                  => layoutClasses = {LayoutClass(store[KeyLayout])}

\* C23: whatever switchView calls were made, with targets that exist or
\* not and the call of loadSavedSettings among them, exactly one view
\* container is active, the one currentView names, and a stored
\* 'dashboard-view' names it too.
C23_ExactlyOneActiveView ==
    /\ activeViews = {currentView}
    /\ store[KeyView] \in {Absent, currentView}

----------------------------------------------------------------------------
(* Theme *)

\* the system colour-scheme signal as a theme
SystemTheme == IF prefersDark THEN "dark" ELSE "light"

\* C24: the theme applied to the page is never anything but light or dark
\* (a page nothing was applied to has no data-theme); while the stored
\* preference is 'auto', set by switchTheme('auto') or found at startup,
\* the applied theme is the one the system signal names, after each change
\* of the signal too.
C24_AppliedThemeConcrete ==
    /\ dataTheme \in ConcreteThemes \cup {""}
    /\ store[KeyTheme] = "auto"
           => dataTheme = SystemTheme /\ cssTokens = SystemTheme

----------------------------------------------------------------------------
(* Refresh tick *)

\* C25: a refresh tick fetches, then merges the snapshot, then shows the
\* 'Data refreshed' note: the tick itself and a failed fetch show no note, a
\* snapshot whose merge throws shows none, and a merged snapshot shows one,
\* with its values in the cells.
C25_NoteAfterMerge ==
    [][/\ RefreshTick => refreshNotes' = refreshNotes
       /\ FetchFail("refreshData") => refreshNotes' = refreshNotes
       /\ RefreshDone(BadStatusSnapshot) => refreshNotes' = refreshNotes
       /\ RefreshDone(BadPriceSnapshot)
              => refreshNotes' = IF ".current-price" \in dom
                                 THEN refreshNotes ELSE refreshNotes + 1
       /\ RefreshDone(OneSnapshot)
              => /\ refreshNotes' = refreshNotes + 1
                 /\ balanceCell' = Dollars(OneSnapshot.balance)
                 /\ statusCell'.text = OneSnapshot.bot_status]_vars

\* a response has arrived whose merge threw at the status, after the price
\* and the balance were written, and no note is on screen
C25_Witness ==
    /\ lastOp.op = "refreshDone"
    /\ statusCell.text = NotAString
    /\ balanceCell = Dollars(99990)
    /\ refreshNotes = 0

----------------------------------------------------------------------------
(* Poll snapshots and the window *)

\* C26: a poll snapshot with a non-empty recent_trades list puts exactly one
\* row, its first entry, at the head of the window, whatever rows are there
\* already; so a trade that the live channel delivered and a poll then
\* returns stands in the two rows at the head.
C26_PollPrependsWithoutDedupe ==
    [][\A tr \in TradeLists \ {<<>>} :
           (/\ ".trade-history tbody" \in dom
            /\ PollDone(Snapshot(123456, 99990, "Running", tr)))
               => /\ tradeRows'
                         = FirstRows(<<tr[1]>> \o tradeRows, WindowCapacity)
                  /\ (/\ lastOp.op = "trade_update"
                      /\ lastOp.arg[1].trade.items = <<tr[1]>>)
                         => /\ Len(tradeRows') >= 2
                            /\ tradeRows'[1] = tr[1]
                            /\ tradeRows'[2] = tr[1]]_vars

----------------------------------------------------------------------------
(* Startup *)

\* C27: a page loaded with an empty preference store is in the default
\* state after initialization: theme light and nothing applied, view
\* dashboard, layout grid, no refresh timer, no colour-scheme listener, and
\* the store still empty; where the store can be read, initialization ran
\* to its end and the switchers are registered.
C27_DefaultsOnEmptyStore ==
    (sinceLoad = 0 /\ loadedEmpty)
        => /\ currentTheme = "light" /\ dataTheme = ""
           /\ currentView = "dashboard" /\ activeViews = {"dashboard"}
           /\ layoutClasses = {"layout-grid"}
           /\ timers = {} /\ refreshInterval = 0
           /\ mqListeners = 0
           /\ storage # "blocked" => wired
           /\ \A k \in Keys : store[k] = Absent

\* a page just loaded on an empty store that takes writes
C27_Witness ==
    sinceLoad = 0 /\ loadedEmpty /\ storage = "ok" /\ wired


\* C28: notifications are independent: a dismissal or an expiry removes the
\* one notification it is about and nothing else; every other notification
\* stays on screen and every other pending expiry stays armed with its
\* deadline.
C28_NotificationsIndependent ==
    [][\A id \in 1..MaxNotifications :
           (Dismiss(id) \/ Expire(id))
               => /\ notifications' = {n \in notifications : n.id # id}
                  /\ {tm \in noteTimers' : tm.id # id}
                         = {tm \in noteTimers : tm.id # id}]_vars

\* one notification has just been dismissed or has expired while another is
\* on screen with its expiry pending
C28_Witness ==
    /\ lastOp.op \in {"dismiss", "expire"}
    /\ \E n \in notifications :
           /\ n.id # lastOp.arg[1]
           /\ \E tm \in noteTimers : tm.id = n.id

----------------------------------------------------------------------------
(* Theme operations of the whole page *)

\* the theme the page shows: light until a data-theme is set
AppliedTheme == IF dataTheme = "" THEN "light" ELSE dataTheme

\* the theme a reload applies: the one stored under 'dashboard-theme',
\* resolved against the system when it is 'auto', light when none is stored
PersistedTheme ==
    IF store[KeyTheme] = Absent THEN "light"
    ELSE IF store[KeyTheme] = "auto" THEN SystemTheme
    ELSE store[KeyTheme]

\* C29: after any sequence of theme operations (switchTheme, enableAutoTheme,
\* toggleTheme) the applied theme is the one persisted under
\* 'dashboard-theme', resolved against the system when that is 'auto'.
C29_AppliedIsPersisted ==
    AppliedTheme = PersistedTheme

\* C30: at most one listener of the system colour scheme is subscribed,
\* however often switchTheme('auto') or enableAutoTheme runs.
C30_AtMostOneSchemeListener ==
    mqListeners <= 1

----------------------------------------------------------------------------
(* The trade table and its two writers (SpecTable) *)

\* C31: the trade table never holds more than 10 rows: not after
\* DashboardSwitcher.updateTradeHistory has replaced it from a response of
\* any length, and not after a later single-row insertion by
\* TradingDashboard.updateTradeHistory.
C31_TableAtMostTen ==
    Len(tradeRows) <= WindowCapacity

----------------------------------------------------------------------------
(* The poll (SpecPoll) *)

\* C32: applying one poll snapshot is all-or-nothing: the price cell, the
\* balance cell, the trade window and the status cell are all updated from
\* the snapshot, or, when a field is of the wrong shape, none of them is.
C32_SnapshotAllOrNothing ==
    [][\A data \in PollSnapshots \cup PartialSnapshots :
           PollDone(data)
               => \/ /\ priceCell' = Dollars(data.current_price)
                     /\ balanceCell' = Dollars(data.balance)
                     /\ inserted' = Append(inserted, data.recent_trades[1])
                     /\ statusCell'.text = data.bot_status
                  \/ UNCHANGED <<priceCell, balanceCell, statusCell,
                                 tradeRows, inserted>>]_vars

----------------------------------------------------------------------------
(* Order of arrival (SpecStale) *)

\* how many changes of the server's price the value in a price cell has
\* seen: -1 for an empty cell
ChangesSeen(cell) ==
    IF cell = <<>> THEN -1
    ELSE CHOOSE k \in 0..MaxPriceChanges : cell = Dollars(PriceAt(k))

\* C33: the price cell never goes back in time: no handler, and so no
\* response to a fetch answered before the update the cell shows, replaces
\* its value by an older one.
C33_CellNeverGoesBack ==
    [][ChangesSeen(priceCell') >= ChangesSeen(priceCell)]_vars

====
